---- MODULE Spec2Model ----
(***************************************************************************)
(* Model of the VNA driver in src/public_code_examples/drivers/znb.py and  *)
(* of its caller src/main.py.                                              *)
(*                                                                         *)
(* The driver is sequential.  Every public method is one action.  The      *)
(* instrument is the environment: for each call the replies it gives to    *)
(* the status polls, the payload it returns to the data query and the      *)
(* transport call that times out (if any) are chosen nondeterministically. *)
(* `sent` records every command handed to the transport during the call,   *)
(* in order, with the reply received.                                      *)
(*                                                                         *)
(* A reply line is modelled as the sequence of its comma-separated fields. *)
(* A float is modelled symbolically as a triple <<tag, a, b>>:             *)
(*   <<"num", n, 0>>          the number n                                 *)
(*   <<"sqrt", p, 0>>         the square root of p                         *)
(*   <<"20log10sqrt", p, 0>>  20*log10(sqrt(p)), p > 0                     *)
(*   <<"-inf", 0, 0>>         minus infinity (log10 of zero)               *)
(*   <<"atan2", y, x>>        the angle of x + iy                          *)
(***************************************************************************)
EXTENDS Integers, Sequences, FiniteSets, TLC

VARIABLES conn, config, pc, call, sent, outcome

vars == <<conn, config, pc, call, sent, outcome>>

(* ------------------------------ bounds --------------------------------- *)

\* number of status polls of one call whose reply is chosen freely
MaxPolls == 2
\* the transport calls of one call that may time out are 1..MaxFailAt
MaxFailAt == 5
\* largest number of complex samples in a data payload
MaxSamples == 2
\* longest tuple of trace names handed to get_traces
MaxTraces == 2

(* ------------------------------ inputs --------------------------------- *)

ZNB_ADDR == "TCPIP::192.168.29.103::5025::SOCKET"

\* commands without a reply, handed to write
WriteCommands == {"*RST", "*CLS", "FORMat:DATA ASCii"}

\* commands with a one-line reply, handed to query
QueryCommands == {"*IDN?", "*STB?", "SYSTem:ERRor:NEXT?"}

TraceNames == {"Trc1", "Trc2"}

DataFormats == {"real-imag", "db-phase", "amp-phase", "DB-Phase", "bogus"}

\* the texts an instrument may answer to *STB?
StbReplies == {"0", "4"}

\* the decimal numerals that occur as fields of a data payload
Numerals == {"0", "1", "-1"}

SeqsUpTo(S, n) == UNION {[1..k -> S] : k \in 0..n}

Payloads == SeqsUpTo(Numerals, 2 * MaxSamples)

StbScripts == [1..MaxPolls -> StbReplies]

IdnReply == <<"Rohde&Schwarz", "ZNB8-4Port", "1311601044100104", "2.80">>

ErrReply == <<"-113", "Undefined header">>

NoConfig == [timeout |-> -1, write_termination |-> "", read_termination |-> ""]

VNAConfig == [timeout |-> 1000, write_termination |-> "\n", read_termination |-> "\n"]

\* the instrument is reached through an open session only: on a closed
\* session its behaviour has no part in the call
Reached(behaviours) ==
    IF conn = "open" THEN behaviours ELSE {CHOOSE b \in behaviours : TRUE}

(* ----------------------- the transport session ------------------------- *)

\* The instrument seen from one call: the session is usable (open), the
\* transport call number failAt times out (0: none), the successive replies
\* to *STB? are stbs (then "0"), the data query answers payload.
NewIO(open, stbs, failAt, payload) ==
    [open |-> open, stbs |-> stbs, failAt |-> failAt, payload |-> payload,
     n |-> 0, log |-> <<>>]

Return(io, val) == [io |-> io, exc |-> "none", msg |-> "", val |-> val]

Raise(io, exc, msg) == [io |-> io, exc |-> exc, msg |-> msg, val |-> <<>>]

Fails(io) == ~io.open \/ io.failAt = io.n + 1

Entry(cmd, ok, reply) == [cmd |-> cmd, ok |-> ok, reply |-> reply]

\* pyvisa: connection.write(cmd)
ConnWrite(io, cmd) ==
    LET io1 == [io EXCEPT !.n = @ + 1,
                          !.log = Append(@, Entry(cmd, ~Fails(io), <<>>))]
    IN IF Fails(io) THEN Raise(io1, "VisaIOError", cmd)
       ELSE Return(io1, <<>>)

\* the reply line of the instrument to a query
ReplyTo(io, cmd) ==
    CASE cmd = "*STB?" -> IF io.stbs = <<>> THEN <<"0">> ELSE <<Head(io.stbs)>>
      [] cmd = "*IDN?" -> IdnReply
      [] cmd = "SYSTem:ERRor:NEXT?" -> ErrReply
      [] cmd = "CALCulate:DATa? Sdata" -> io.payload
      [] OTHER -> <<>>

\* pyvisa: connection.query(cmd)
ConnQuery(io, cmd) ==
    LET ok == ~Fails(io)
        r  == IF ok THEN ReplyTo(io, cmd) ELSE <<>>
        io1 == [io EXCEPT !.n = @ + 1,
                          !.log = Append(@, Entry(cmd, ok, r)),
                          !.stbs = IF ok /\ cmd = "*STB?" /\ @ # <<>>
                                   THEN Tail(@) ELSE @]
    IN IF ok THEN Return(io1, r) ELSE Raise(io1, "VisaIOError", cmd)

\* Python int() on the text of a status reply
IntOf(text) ==
    CASE text = <<"0">> -> 0
      [] text = <<"4">> -> 4
      [] OTHER -> -1

(* ------------------------------ VNA ------------------------------------ *)

\* A method is a chain of operators, one per point where the code looks at
\* the result of the call before: each takes that result and goes on.

RECURSIVE write(_, _), get_error_status(_)

\* VNA.write, the end: raise for a pending error, else return the result
write_result(w, e, cmd) ==
    IF e.exc # "none" THEN e
    ELSE IF e.val THEN Raise(e.io, "RuntimeError", "command failed: " \o cmd)
    ELSE Return(e.io, w.val)

\* VNA.write, after connection.write: check the error status
write_sent(w, cmd) ==
    IF w.exc # "none" THEN w ELSE write_result(w, get_error_status(w.io), cmd)

\* VNA.write
write(io, cmd) == write_sent(ConnWrite(io, cmd), cmd)

\* VNA.get_error_status, the end of the try/finally: an exception of the
\* finally clause replaces the one of the try clause
status_cleared(e, c) ==
    IF c.exc # "none" THEN c
    ELSE IF e.exc # "none" THEN Raise(c.io, e.exc, e.msg)
    ELSE Return(c.io, TRUE)

\* VNA.get_error_status, the finally clause: self.write("*CLS")
error_read(e) == status_cleared(e, write(e.io, "*CLS"))

\* VNA.get_error_status, after the status poll
status_polled(q) ==
    IF q.exc # "none" THEN q
    ELSE IF IntOf(q.val) # 0 THEN error_read(ConnQuery(q.io, "SYSTem:ERRor:NEXT?"))
    ELSE Return(q.io, FALSE)

\* VNA.get_error_status
get_error_status(io) == status_polled(ConnQuery(io, "*STB?"))

\* a query sent the way write sends, with the status poll after it
query_polled(io, cmd) == write(io, cmd)

\* VNA.query
query(io, cmd) == ConnQuery(io, cmd)

\* VNA.reset
reset(io) == write(io, "*RST")

(* ------------------------------ numpy ---------------------------------- *)

Num(n) == <<"num", n, 0>>

\* strtod on one field of the payload
StrToD(field) ==
    CASE field = "0" -> 0
      [] field = "1" -> 1
      [] field = "-1" -> -1

\* np.fromstring(val, sep=',')
fromstring(text) == [i \in 1..Len(text) |-> Num(StrToD(text[i]))]

\* np.reshape(val, (-1,2)) is defined for an even number of values
CanReshape(val) == Len(val) % 2 = 0

\* a reshape that fills the two columns one after the other
reshape_by_column(val) ==
    [k \in 1..(Len(val) \div 2) |-> <<val[k], val[k + Len(val) \div 2]>>]

\* np.reshape(val, (-1,2)): row k holds the values 2k-1 and 2k
reshape(val) == [k \in 1..(Len(val) \div 2) |-> <<val[2 * k - 1], val[2 * k]>>]

\* np.transpose of an array of shape (N,2): two rows of N values
transpose(rows) == [c \in 1..2 |-> [k \in 1..Len(rows) |-> rows[k][c]]]

\* abs(real + 1j*imag) of one sample
Abs(re, im) == <<"sqrt", re[2] * re[2] + im[2] * im[2], 0>>

\* np.angle(real + 1j*imag) of one sample
Angle(re, im) == <<"atan2", im[2], re[2]>>

\* 20.*np.log10(a) of one magnitude; log10(0) is -inf (numpy warns)
Db(a) == IF a[2] = 0 THEN <<"-inf", 0, 0>> ELSE <<"20log10sqrt", a[2], 0>>

\* a**2 of one magnitude
Power(a) == Num(a[2])

\* a numpy that raises RuntimeError on a zero magnitude
RaisesOnZero(mag) == mag[2] = 0

\* whether the numpy expression raises RuntimeError: numpy reports a zero
\* argument of log10 by a RuntimeWarning, never by an exception
NumpyRaises(mag) == FALSE

\* np.ones_like(real)
ones_like(real) == [k \in 1..Len(real) |-> Num(1)]

\* str.lower on the format strings in use
Lower(s) == IF s = "DB-Phase" THEN "db-phase" ELSE s

\* a returned Python tuple of two arrays
PyTuple(a, b) == [type |-> "tuple", items |-> <<a, b>>]

\* a returned single array
NdArray(a) == [type |-> "ndarray", items |-> <<a>>]

SelectCmd(trace) == "CALC:PARameter:SEL \"" \o trace \o "\""

DataQuery == "CALCulate:DATa? Sdata"

\* abs(real + 1j*imag)
Magnitudes(real, imag) == [k \in 1..Len(real) |-> Abs(real[k], imag[k])]

\* np.angle(real + 1j*imag)
Phases(real, imag) == [k \in 1..Len(real) |-> Angle(real[k], imag[k])]

\* the except RuntimeError clause is entered
Caught(real, imag) ==
    \E k \in 1..Len(real) : NumpyRaises(Magnitudes(real, imag)[k])

\* VNA._get_data, the conversion of the two arrays to the format asked for
Convert(io, real, imag, data_format) ==
    CASE Lower(data_format) = "real-imag" ->
            Return(io, PyTuple(real, imag))
      [] Lower(data_format) = "db-phase" ->
            IF Caught(real, imag) THEN Return(io, NdArray(ones_like(real)))
            ELSE Return(io, PyTuple([k \in 1..Len(real) |-> Db(Magnitudes(real, imag)[k])],
                                    Phases(real, imag)))
      [] Lower(data_format) = "amp-phase" ->
            IF Caught(real, imag) THEN Return(io, NdArray(ones_like(real)))
            ELSE Return(io, PyTuple([k \in 1..Len(real) |-> Power(Magnitudes(real, imag)[k])],
                                    Phases(real, imag)))
      [] OTHER ->
            Raise(io, "ValueError",
                  "data-format must be: 'real-imag', 'db-phase', 'amp-phase'.")

\* VNA._get_data, the two rows of the transposed array
data_split(io, ri, data_format) == Convert(io, ri[1], ri[2], data_format)

\* VNA._get_data, the parsed values
data_parsed(io, val, data_format) ==
    IF ~CanReshape(val) THEN Raise(io, "ValueError", "cannot reshape array")
    ELSE data_split(io, transpose(reshape(val)), data_format)

\* VNA._get_data, after the data query
data_read(q, data_format) ==
    IF q.exc # "none" THEN q ELSE data_parsed(q.io, fromstring(q.val), data_format)

\* VNA._get_data, after the trace select
data_selected(w, data_format) ==
    IF w.exc # "none" THEN w ELSE data_read(query(w.io, DataQuery), data_format)

\* a _get_data that goes on to the data query after a failed select
get_data_unguarded(io, trace, data_format) ==
    data_read(query(write(io, SelectCmd(trace)).io, DataQuery), data_format)

\* VNA._get_data
get_data(io, trace, data_format) ==
    data_selected(write(io, SelectCmd(trace)), data_format)

\* pydantic validate_call on the annotation Tuple[str]: a tuple of one str
ValidTraces(traces) == Len(traces) = 1

RECURSIVE get_traces_loop(_, _, _, _)

\* VNA.get_traces, temp.append of one result, then the rest of the loop
loop_append(d, traces, data_format, temp) ==
    IF d.exc # "none" THEN d
    ELSE get_traces_loop(d.io, Tail(traces), data_format, Append(temp, d.val))

\* VNA.get_traces, the for loop over the names not yet fetched
get_traces_loop(io, traces, data_format, temp) ==
    IF traces = <<>> THEN Return(io, temp)
    ELSE loop_append(get_data(io, Head(traces), data_format), traces, data_format, temp)

\* VNA.get_traces
get_traces(io, traces, data_format) ==
    IF ~ValidTraces(traces) THEN Raise(io, "ValidationError", "traces")
    ELSE get_traces_loop(io, traces, data_format, <<>>)

\* VNA.__init__, the try block after *IDN?
setup_format(i) ==
    IF i.exc # "none" THEN i ELSE write(i.io, "FORMat:DATA ASCii")

\* VNA.__init__, the try block after *CLS
setup_identify(c) ==
    IF c.exc # "none" THEN c ELSE setup_format(query(c.io, "*IDN?"))

\* VNA.__init__, the try block: open the resource, configure it, set it up
setup(io, opened, cfg) ==
    IF ~opened THEN Raise(io, "VisaIOError", "open_resource")
    ELSE IF cfg = NoConfig THEN Raise(io, "AttributeError", "timeout")
    ELSE setup_identify(write(io, "*CLS"))

\* VNA.__init__, except Exception: raise RuntimeError("failed to connect")
except_exception(r) ==
    IF r.exc # "none" THEN Raise(r.io, "RuntimeError", "failed to connect") ELSE r

\* a constructor without the except clause
connect_no_except(io, opened, cfg) == setup(io, opened, cfg)

\* VNA.__init__ from the point where the resource manager exists
connect(io, opened, cfg) == except_exception(setup(io, opened, cfg))

\* VNA.__init__
init(io, backend, opened, cfg) ==
    IF ~backend THEN Raise(io, "ValueError", "Could not locate a VISA implementation")
    ELSE connect(io, opened, cfg)

(* ------------------------------ actions -------------------------------- *)

NoCall == [op |-> "none", cmd |-> "", traces |-> <<>>, format |-> "",
           backend |-> TRUE, opened |-> TRUE]

NoResult == [type |-> "none", items |-> <<>>]

\* what a call hands to its caller: the exception raised (exc, msg) or the
\* value returned, kept in the field of its type: flag for get_error_status,
\* text for write and query, val for _get_data, list for get_traces
NoOutcome == [exc |-> "none", msg |-> "", flag |-> FALSE, text |-> <<>>,
              val |-> NoResult, list |-> <<>>]

Raised(r) == [NoOutcome EXCEPT !.exc = r.exc, !.msg = r.msg]

Outcome(op, r) ==
    IF r.exc # "none" THEN Raised(r)
    ELSE CASE op = "get_error_status" -> [NoOutcome EXCEPT !.flag = r.val]
           [] op \in {"write", "query", "reset"} -> [NoOutcome EXCEPT !.text = r.val]
           [] op = "get_data" -> [NoOutcome EXCEPT !.val = r.val]
           [] op = "get_traces" -> [NoOutcome EXCEPT !.list = r.val]
           [] OTHER -> NoOutcome

\* the call returns or raises: its result is in the hands of the caller
Finish(c, r) ==
    /\ pc' = "returned"
    /\ call' = c
    /\ sent' = r.io.log
    /\ outcome' = Outcome(c.op, r)

Init ==
    /\ conn = "none"
    /\ config = NoConfig
    /\ pc = "idle"
    /\ call = NoCall
    /\ sent = <<>>
    /\ outcome = NoOutcome

\* vna = VNA(connection_string, config)
Construct ==
    /\ pc = "idle"
    /\ conn = "none"
    /\ \E backend \in BOOLEAN, opened \in BOOLEAN, cfg \in {NoConfig, VNAConfig},
          stbs \in StbScripts, failAt \in 0..MaxFailAt :
          /\ Finish([NoCall EXCEPT !.op = "init", !.cmd = ZNB_ADDR,
                                   !.backend = backend, !.opened = opened],
                    init(NewIO(TRUE, stbs, failAt, <<>>), backend, opened, cfg))
          /\ conn' = IF outcome'.exc = "none" THEN "open" ELSE "none"
          /\ config' = IF outcome'.exc = "none" THEN cfg ELSE NoConfig

\* vna.close()
Close ==
    /\ pc = "idle"
    /\ conn # "none"
    /\ conn' = "closed"
    /\ Finish([NoCall EXCEPT !.op = "close"], Return(NewIO(FALSE, <<>>, 0, <<>>), <<>>))
    /\ UNCHANGED config

\* vna.write(cmd)
Write ==
    /\ pc = "idle"
    /\ conn # "none"
    /\ \E cmd \in WriteCommands, stbs \in Reached(StbScripts), failAt \in Reached(0..MaxFailAt) :
          Finish([NoCall EXCEPT !.op = "write", !.cmd = cmd],
                 write(NewIO(conn = "open", stbs, failAt, <<>>), cmd))
    /\ UNCHANGED <<conn, config>>

\* vna.query(cmd)
Query ==
    /\ pc = "idle"
    /\ conn # "none"
    /\ \E cmd \in QueryCommands, stbs \in Reached(StbScripts), failAt \in Reached(0..MaxFailAt) :
          Finish([NoCall EXCEPT !.op = "query", !.cmd = cmd],
                 query(NewIO(conn = "open", stbs, failAt, <<>>), cmd))
    /\ UNCHANGED <<conn, config>>

\* vna.get_error_status()
GetErrorStatus ==
    /\ pc = "idle"
    /\ conn # "none"
    /\ \E stbs \in Reached(StbScripts), failAt \in Reached(0..MaxFailAt) :
          Finish([NoCall EXCEPT !.op = "get_error_status"],
                 get_error_status(NewIO(conn = "open", stbs, failAt, <<>>)))
    /\ UNCHANGED <<conn, config>>

\* vna.reset()
Reset ==
    /\ pc = "idle"
    /\ conn # "none"
    /\ \E stbs \in Reached(StbScripts), failAt \in Reached(0..MaxFailAt) :
          Finish([NoCall EXCEPT !.op = "reset", !.cmd = "*RST"],
                 reset(NewIO(conn = "open", stbs, failAt, <<>>)))
    /\ UNCHANGED <<conn, config>>

\* vna._get_data(trace, data_format)
GetData ==
    /\ pc = "idle"
    /\ conn # "none"
    /\ \E trace \in TraceNames, fmt \in DataFormats, payload \in Reached(Payloads),
          stbs \in Reached(StbScripts), failAt \in Reached(0..MaxFailAt) :
          Finish([NoCall EXCEPT !.op = "get_data", !.traces = <<trace>>,
                                !.format = fmt],
                 get_data(NewIO(conn = "open", stbs, failAt, payload), trace, fmt))
    /\ UNCHANGED <<conn, config>>

\* the instrument takes part in a get_traces call only when the arguments
\* pass validation, which comes before any transport call
Asked(traces, behaviours) ==
    IF ValidTraces(traces) THEN Reached(behaviours)
    ELSE {CHOOSE b \in behaviours : TRUE}

\* vna.get_traces(traces, data_format)
GetTraces ==
    /\ pc = "idle"
    /\ conn # "none"
    /\ \E traces \in SeqsUpTo(TraceNames, MaxTraces), fmt \in DataFormats :
          \E payload \in Asked(traces, Payloads), stbs \in Asked(traces, StbScripts),
             failAt \in Asked(traces, 0..MaxFailAt) :
             Finish([NoCall EXCEPT !.op = "get_traces", !.traces = traces,
                                   !.format = fmt],
                    get_traces(NewIO(conn = "open", stbs, failAt, payload),
                               traces, fmt))
    /\ UNCHANGED <<conn, config>>

\* main: the caller takes the result (prints it) and is free to call again
ReturnToCaller ==
    /\ pc = "returned"
    /\ pc' = "idle"
    /\ call' = NoCall
    /\ sent' = <<>>
    /\ outcome' = NoOutcome
    /\ UNCHANGED <<conn, config>>

Next ==
    \/ Construct
    \/ Close
    \/ Write
    \/ Query
    \/ GetErrorStatus
    \/ Reset
    \/ GetData
    \/ GetTraces
    \/ ReturnToCaller

Spec == Init /\ [][Next]_vars

(* ------------------------------ claims --------------------------------- *)

ValidFormats == {"real-imag", "db-phase", "amp-phase"}

SelectCmds == {SelectCmd(t) : t \in TraceNames}

Returned(op) == pc = "returned" /\ call.op = op

Cmds(log) == [i \in DOMAIN log |-> log[i].cmd]

Count(log, cmd) == Cardinality({i \in DOMAIN log : log[i].cmd = cmd})

AllOk(log) == \A i \in DOMAIN log : log[i].ok

NonzeroStb(e) == e.cmd = "*STB?" /\ e.ok /\ IntOf(e.reply) # 0

IsSelect(c) == c \in SelectCmds

IsSetup(c) == c \in {"*IDN?", "FORMat:DATA ASCii"}

IsPrefix(s, t) == Len(s) <= Len(t) /\ \A i \in DOMAIN s : s[i] = t[i]

\* the reply to the data query of the call, when the query was answered
HasData == \E i \in DOMAIN sent : sent[i].cmd = DataQuery /\ sent[i].ok

Payload == sent[CHOOSE i \in DOMAIN sent : sent[i].cmd = DataQuery /\ sent[i].ok].reply

\* C1: write(cmd) returns normally when the status byte read after cmd is 0;
\* when it is nonzero, write raises a command error carrying cmd, and *CLS is
\* sent exactly once during the call.  Stated for the calls in which no
\* transport call times out.
C1_WriteContract ==
    (Returned("write") /\ AllOk(sent) /\ Len(sent) >= 2) =>
        IF IntOf(sent[2].reply) = 0
        THEN outcome.exc = "none"
        ELSE /\ outcome.exc = "RuntimeError"
             /\ outcome.msg = "command failed: " \o call.cmd
             /\ Count(Tail(sent), "*CLS") = 1

\* the instrument reported no error and answered every query of the call
NoError ==
    /\ AllOk(sent)
    /\ \A i \in DOMAIN sent : ~NonzeroStb(sent[i])
    /\ \A i \in DOMAIN sent : sent[i].cmd = DataQuery => Len(sent[i].reply) % 2 = 0

\* C2: with an unrecognized format string ("bogus") _get_data raises the
\* invalid-argument error and sends nothing to the instrument.  Stated for
\* the calls in which the instrument, if it is reached, reports no error.
C2_NoIOOnBadFormat ==
    (Returned("get_data") /\ call.format = "bogus" /\ NoError) =>
        /\ outcome.exc = "ValueError"
        /\ sent = <<>>

\* C3: for every tuple of trace names and every valid format, get_traces with
\* an instrument that reports no error returns a list of the same length whose
\* i-th element is the _get_data result of the i-th name, and the selects
\* reach the instrument in the order of the names.  Stated for the non-empty
\* tuples and an open session.
C3_GetTracesOrdered ==
    (Returned("get_traces") /\ conn = "open" /\ call.traces # <<>>
        /\ call.format \in ValidFormats /\ NoError) =>
        /\ outcome.exc = "none"
        /\ Len(outcome.list) = Len(call.traces)
        /\ SelectSeq(Cmds(sent), IsSelect)
              = [i \in DOMAIN call.traces |-> SelectCmd(call.traces[i])]
        /\ \A i \in DOMAIN call.traces :
              outcome.list[i] =
                 get_data(NewIO(TRUE, <<>>, 0, Payload), call.traces[i], call.format).val

\* a setup step of the constructor failed: a transport call timed out or a
\* status poll read nonzero
StepFailed == \E i \in DOMAIN sent : ~sent[i].ok \/ NonzeroStb(sent[i])

\* C4: the constructor issues *CLS, *IDN? and FORMat:DATA ASCii in this order;
\* when the open or one of these steps fails it raises the connection error,
\* no other error, and no client exists.
C4_ConstructContract ==
    Returned("init") =>
        /\ sent # <<>> => sent[1].cmd = "*CLS"
        /\ IsPrefix(SelectSeq(Cmds(sent), IsSetup), <<"*IDN?", "FORMat:DATA ASCii">>)
        /\ outcome.exc = "none" =>
              /\ SelectSeq(Cmds(sent), IsSetup) = <<"*IDN?", "FORMat:DATA ASCii">>
              /\ call.opened /\ ~StepFailed
        /\ (call.backend /\ (~call.opened \/ StepFailed)) =>
              /\ outcome.exc = "RuntimeError"
              /\ outcome.msg = "failed to connect"
        /\ outcome.exc # "none" => conn = "none"

\* the last setup command of the constructor was sent and its status poll
\* read nonzero
C4_Witness ==
    /\ Returned("init")
    /\ outcome.exc = "RuntimeError"
    /\ \E i \in DOMAIN sent : /\ sent[i].cmd = "FORMat:DATA ASCii"
                              /\ i < Len(sent)
                              /\ NonzeroStb(sent[i + 1])

\* C5: get_error_status queries *STB? first; on 0 it sends nothing further and
\* reports no error; on a nonzero value it sends SYSTem:ERRor:NEXT? and then
\* *CLS in every case, and reports that an error is present (the report is
\* stated for the calls in which no transport call times out).
C5_ErrorStatusContract ==
    (Returned("get_error_status") /\ sent[1].ok) =>
        /\ sent[1].cmd = "*STB?"
        /\ IF IntOf(sent[1].reply) = 0
           THEN /\ Len(sent) = 1
                /\ outcome.exc = "none"
                /\ outcome.flag = FALSE
           ELSE /\ Len(sent) >= 3
                /\ sent[2].cmd = "SYSTem:ERRor:NEXT?"
                /\ sent[3].cmd = "*CLS"
                /\ AllOk(sent) => (outcome.exc = "none" /\ outcome.flag = TRUE)

\* C6: query(cmd) sends cmd and nothing else (no status poll, no error-queue
\* read, no *CLS) and returns the reply unchanged, whatever the status byte is.
C6_QueryContract ==
    Returned("query") =>
        /\ Cmds(sent) = <<call.cmd>>
        /\ sent[1].ok => (outcome.exc = "none" /\ outcome.text = sent[1].reply)
        /\ (sent[1].ok /\ call.cmd = "*IDN?") => outcome.text = IdnReply

\* the status byte is nonzero and the query returns it as read
C6_Witness ==
    /\ Returned("query")
    /\ call.cmd = "*STB?"
    /\ outcome.exc = "none"
    /\ outcome.text = <<"4">>

\* C7: for each valid format and every payload of 2N values (all-zero samples
\* included) _get_data returns two sequences of length N.
C7_TwoSequences ==
    (Returned("get_data") /\ call.format \in ValidFormats /\ HasData
        /\ Len(Payload) % 2 = 0) =>
        /\ outcome.exc = "none"
        /\ outcome.val.type = "tuple"
        /\ Len(outcome.val.items) = 2
        /\ \A c \in 1..2 : Len(outcome.val.items[c]) = Len(Payload) \div 2

\* an all-zero trace of two samples converted to db-phase
C7_Witness ==
    /\ Returned("get_data")
    /\ call.format = "db-phase"
    /\ HasData
    /\ Payload = <<"0", "0", "0", "0">>
    /\ outcome.exc = "none"

\* C8: with real-imag the result is (real, imag) with real[i] = v[2i] and
\* imag[i] = v[2i+1] (0-based) of the payload values v, untransformed.
C8_RealImagPassThrough ==
    (Returned("get_data") /\ call.format = "real-imag" /\ outcome.exc = "none") =>
        /\ HasData
        /\ Len(outcome.val.items[1]) * 2 = Len(Payload)
        /\ Len(outcome.val.items[2]) * 2 = Len(Payload)
        /\ \A k \in 1..(Len(Payload) \div 2) :
              /\ outcome.val.items[1][k] = Num(StrToD(Payload[2 * k - 1]))
              /\ outcome.val.items[2][k] = Num(StrToD(Payload[2 * k]))

\* two samples whose four values tell the positions apart
C8_Witness ==
    /\ Returned("get_data")
    /\ call.format = "real-imag"
    /\ outcome.exc = "none"
    /\ HasData
    /\ Payload = <<"1", "0", "-1", "1">>

\* the magnitude/power channel of a _get_data result
Magnitude(val) == val.items[1]

AllZero(text) == text # <<>> /\ \A i \in DOMAIN text : StrToD(text[i]) = 0

\* C9: on an all-zero trace the db-phase and amp-phase conversions raise no
\* error and return all ones for the magnitude/power channel.
C9_ZeroTraceFallback ==
    (Returned("get_data") /\ call.format \in {"db-phase", "amp-phase"} /\ HasData
        /\ Len(Payload) % 2 = 0 /\ AllZero(Payload)) =>
        /\ outcome.exc = "none"
        /\ Magnitude(outcome.val) = [k \in 1..(Len(Payload) \div 2) |-> Num(1)]

\* the select write at position i failed with a command error
SelectFailedAt(i) ==
    /\ IsSelect(sent[i].cmd)
    /\ i < Len(sent)
    /\ NonzeroStb(sent[i + 1])

\* C10: the data query of a trace is sent only after its select succeeded;
\* after a select that failed with a command error no data query and no
\* further select is sent (no retry, no later name), the call fails and
\* returns no partial result.
C10_SelectBeforeData ==
    (pc = "returned" /\ call.op \in {"get_data", "get_traces"}) =>
        /\ \A j \in DOMAIN sent : sent[j].cmd = DataQuery =>
              /\ j >= 3
              /\ IsSelect(sent[j - 2].cmd) /\ sent[j - 2].ok
              /\ sent[j - 1].cmd = "*STB?" /\ sent[j - 1].ok
              /\ IntOf(sent[j - 1].reply) = 0
        /\ \A i \in DOMAIN sent : SelectFailedAt(i) =>
              /\ \A j \in DOMAIN sent : sent[j].cmd = DataQuery => FALSE
              /\ \A j \in DOMAIN sent : IsSelect(sent[j].cmd) => j = i
              /\ outcome.exc # "none"
              /\ outcome.val = NoResult
              /\ outcome.list = <<>>
        /\ Len(SelectSeq(Cmds(sent), IsSelect)) <= Len(call.traces)
        /\ IsPrefix(SelectSeq(Cmds(sent), IsSelect),
                    [i \in DOMAIN call.traces |-> SelectCmd(call.traces[i])])

\* a get_traces call whose select was refused by the instrument
C10_Witness ==
    /\ Returned("get_traces")
    /\ \E i \in DOMAIN sent : SelectFailedAt(i)
    /\ outcome.exc = "RuntimeError"

====
